---- MODULE Spec2Model ----
(***************************************************************************)
(* The C# emitter of xgen: GenCSharp walks gen.ProtoTree, dispatches each   *)
(* construct to its CSharp<Variant> handler, which appends declarations to  *)
(* gen.Field and records them in gen.StructAST, then writes the unit to the *)
(* destination file.                                                        *)
(*                                                                          *)
(* A Go string is a sequence of one-character strings; `<' on strings is    *)
(* the byte-wise order given by Ascii.  The text appended to gen.Field is   *)
(* kept as the sequence of its declarations, each a record of the pieces    *)
(* the Sprintf calls put together (documentation text is always empty).     *)
(***************************************************************************)
EXTENDS Integers, Sequences, FiniteSets, TLC

\* ------------------------------------------------------------------ bounds
\* Longest schema tree handed to a generator.
MaxTree == 3

\* ----------------------------------------------------------------- strings
Lower == <<"a","b","c","d","e","f","g","h","i","j","k","l","m","n","o","p","q","r","s","t","u","v","w","x","y","z">>
Upper == <<"A","B","C","D","E","F","G","H","I","J","K","L","M","N","O","P","Q","R","S","T","U","V","W","X","Y","Z">>
Digits == <<"0","1","2","3","4","5","6","7","8","9">>

\* Byte value of a character (the order Go compares strings by).
Ascii(c) ==
  IF \E i \in DOMAIN Upper : Upper[i] = c THEN 64 + (CHOOSE i \in DOMAIN Upper : Upper[i] = c)
  ELSE IF \E i \in DOMAIN Lower : Lower[i] = c THEN 96 + (CHOOSE i \in DOMAIN Lower : Lower[i] = c)
  ELSE IF \E i \in DOMAIN Digits : Digits[i] = c THEN 47 + (CHOOSE i \in DOMAIN Digits : Digits[i] = c)
  ELSE CASE c = "-" -> 45 [] c = "." -> 46 [] c = ":" -> 58 [] c = "<" -> 60
         [] c = ">" -> 62 [] c = "?" -> 63 [] c = "[" -> 91 [] c = "]" -> 93

\* Go's s < t on strings.
RECURSIVE StrLess(_, _)
StrLess(s, t) ==
  IF t = <<>> THEN FALSE
  ELSE IF s = <<>> THEN TRUE
  ELSE IF Head(s) = Head(t) THEN StrLess(Tail(s), Tail(t))
  ELSE Ascii(Head(s)) < Ascii(Head(t))

\* strings.Compare(s, t)
StrCompare(s, t) == IF s = t THEN 0 ELSE IF StrLess(s, t) THEN 0 - 1 ELSE 1

\* strings.Split(s, sep) for a one-character separator.
RECURSIVE Split(_, _)
Split(s, sep) ==
  IF \A i \in DOMAIN s : s[i] # sep THEN <<s>>
  ELSE LET i == CHOOSE k \in DOMAIN s : s[k] = sep /\ \A j \in 1..(k - 1) : s[j] # sep
       IN <<SubSeq(s, 1, i - 1)>> \o Split(SubSeq(s, i + 1, Len(s)), sep)

\* strings.Replace(s, old, "", -1) for a one-character old.
Remove(s, old) == SelectSeq(s, LAMBDA c : c # old)

\* strings.HasSuffix(s, suf) for a one-character suf.
HasSuffix(s, suf) == Len(s) > 0 /\ s[Len(s)] = suf

\* unicode.ToUpper on one character.
ToUpper(c) ==
  IF \E i \in DOMAIN Lower : Lower[i] = c
  THEN Upper[CHOOSE i \in DOMAIN Lower : Lower[i] = c]
  ELSE c

ToTitle(val) == [i \in DOMAIN val |-> IF i = 1 THEN ToUpper(val[i]) ELSE val[i]]

MakeFirstUpperCase(s) == ToTitle(s)

\* fmt's %d of a positive count.
RECURSIVE Itoa(_)
Itoa(n) == IF n < 10 THEN <<Digits[n + 1]>> ELSE Itoa(n \div 10) \o <<Digits[(n % 10) + 1]>>

RECURSIVE Concat(_)
Concat(ss) == IF ss = <<>> THEN <<>> ELSE Head(ss) \o Concat(Tail(ss))

\* for _, str := range parts { out += MakeFirstUpperCase(str) }
TitleJoin(parts) == Concat([i \in DOMAIN parts |-> MakeFirstUpperCase(parts[i])])

\* -------------------------------------------------------------------- maps
\* A Go map is a function on its key set.
EmptyMap == [k \in {} |-> <<>>]
MapPut(m, k, v) == [x \in (DOMAIN m) \cup {k} |-> IF x = k THEN v ELSE m[x]]
MapGet(m, k, zero) == IF k \in DOMAIN m THEN m[k] ELSE zero

\* ------------------------------------------------------------ type tables
csharpBuildInType ==
  { <<"b","o","o","l">>, <<"b","y","t","e">>, <<"b","y","t","e","[","]">>, <<"D","a","t","e","O","n","l","y">>, <<"D","a","t","e","T","i","m","e">>, <<"d","e","c","i","m","a","l">>,
    <<"d","o","u","b","l","e">>, <<"f","l","o","a","t">>, <<"i","n","t">>, <<"L","i","s","t","<","s","t","r","i","n","g",">">>, <<"l","o","n","g">>, <<"o","b","j","e","c","t">>,
    <<"s","h","o","r","t">>, <<"s","t","r","i","n","g">>, <<"T","i","m","e","O","n","l","y">>, <<"u","i","n","t">>, <<"u","l","o","n","g">>, <<"u","s","h","o","r","t">> }

csharpBuildInDefaultValues ==
  (<<"b","y","t","e","[","]">> :> "Array.Empty<byte>()") @@ (<<"L","i","s","t","<","s","t","r","i","n","g",">">> :> "new()")
    @@ (<<"o","b","j","e","c","t">> :> "new()") @@ (<<"s","t","r","i","n","g">> :> "\"\"")

isBuiltInCSharpType(typeName) == typeName \in csharpBuildInType

getCSharpDefaultValue(typeName) ==
  IF HasSuffix(typeName, "?") THEN ""
  ELSE IF isBuiltInCSharpType(typeName)
       THEN IF typeName \in DOMAIN csharpBuildInDefaultValues
            THEN " = " \o csharpBuildInDefaultValues[typeName] \o ";"
            ELSE ""
       ELSE " = new();"

trimNSPrefix(str) ==
  LET split == Split(str, ":") IN IF Len(split) = 2 THEN split[2] ELSE str

genCSharpFieldType(name) ==
  IF name \in csharpBuildInType THEN name
  ELSE LET fieldType == MakeFirstUpperCase(Remove(TitleJoin(Split(name, ".")), "-"))
       IN IF fieldType # <<>> THEN fieldType ELSE <<"o","b","j","e","c","t">>

\* First construct of the tree that gives `name' an underlying type.
RECURSIVE getBasefromSimpleType(_, _)
getBasefromSimpleType(name, XSDSchema) ==
  IF XSDSchema = <<>> THEN name
  ELSE LET v == Head(XSDSchema) IN
       IF v.kind = "SimpleType" /\ ~v.List /\ ~v.Union /\ v.Name = name THEN v.Base
       ELSE IF v.kind = "Attribute" /\ v.Name = name THEN v.Type
       ELSE IF v.kind = "Element" /\ v.Name = name THEN v.Type
       ELSE getBasefromSimpleType(name, Tail(XSDSchema))

\* The name part of genCSharpFieldName, before the uniqueness counter.
NormalizeName(name) ==
  Remove(TitleJoin(Split(TitleJoin(Split(name, ":")), ".")), "-")

\* --------------------------------------------------------- schema constructs
\* The variants of a schema tree entry; "nil" is a nil interface value.
Nil == [kind |-> "nil"]
SimpleType(name, base, list, union, members) ==
  [kind |-> "SimpleType", Name |-> name, Base |-> base, List |-> list,
   Union |-> union, MemberTypes |-> members]
ComplexType(name, base, attrGroups, attributes, groups, elements) ==
  [kind |-> "ComplexType", Name |-> name, Base |-> base, AttributeGroup |-> attrGroups,
   Attributes |-> attributes, Groups |-> groups, Elements |-> elements]
Element(name, type, plural, optional) ==
  [kind |-> "Element", Name |-> name, Type |-> type, Plural |-> plural, Optional |-> optional]
Attribute(name, type, plural, optional) ==
  [kind |-> "Attribute", Name |-> name, Type |-> type, Plural |-> plural, Optional |-> optional]
Group(name, ref, plural, elements, groups) ==
  [kind |-> "Group", Name |-> name, Ref |-> ref, Plural |-> plural,
   Elements |-> elements, Groups |-> groups]
AttributeGroup(name, ref, attributes) ==
  [kind |-> "AttributeGroup", Name |-> name, Ref |-> ref, Attributes |-> attributes]

\* ------------------------------------------------------- identifier counter
\* fieldNameCount[fieldName]++ ; count := fieldNameCount[fieldName]
CountAfter(fnc, name) == MapGet(fnc, NormalizeName(name), 0) + 1

\* The value genCSharpFieldName returns, given the counter it finds.
genCSharpFieldName(name, unique, fnc) ==
  LET fieldName == NormalizeName(name)
      count == CountAfter(fnc, name)
  IN IF unique /\ count # 1 THEN fieldName \o Itoa(count) ELSE fieldName

\* The counter genCSharpFieldName leaves behind.
fieldNameCountAfter(name, unique, fnc) ==
  IF unique THEN MapPut(fnc, NormalizeName(name), CountAfter(fnc, name)) ELSE fnc

\* ------------------------------------------------------------- declarations
\* One field line of a class body.
FieldLine(attr, xml, type, name, init) ==
  [attr |-> attr, xml |-> xml, type |-> type, name |-> name, init |-> init]

\* " : T {};\n" and "\n\t{\n ... \t}\n"
AliasContent(fieldType) == [form |-> "alias", base |-> fieldType, fields |-> <<>>]
BodyContent(fields) == [form |-> "body", base |-> <<>>, fields |-> fields]

\* genCSharpFieldAttributes(name, isElement)
genCSharpFieldAttributes(isElement) == IF isElement THEN "XmlElement" ELSE "XmlAttribute"

ListOf(fieldType) == <<"L","i","s","t","<">> \o fieldType \o <<">">>

\* Declare with the declaration put in front of gen.Field instead of after it.
DeclarePrepend(st, name, inheritance, content) ==
  LET fieldName == genCSharpFieldName(name, TRUE, st.fieldNameCount) IN
  [Field |-> <<[comment |-> fieldName, xmlType |-> name, class |-> fieldName,
                inheritance |-> inheritance, content |-> content]>> \o st.Field,
   StructAST |-> MapPut(st.StructAST, name, content),
   fieldNameCount |-> fieldNameCountAfter(name, TRUE, st.fieldNameCount)]

\* gen.StructAST[v.Name] = content; fieldName := genCSharpFieldName(v.Name, true);
\* gen.Field += comment + class attributes + "public partial class" + fieldName + content
Declare(st, name, inheritance, content) ==
  LET fieldName == genCSharpFieldName(name, TRUE, st.fieldNameCount) IN
  [Field |-> Append(st.Field, [comment |-> fieldName, xmlType |-> name, class |-> fieldName,
                                inheritance |-> inheritance, content |-> content]),
   StructAST |-> MapPut(st.StructAST, name, content),
   fieldNameCount |-> fieldNameCountAfter(name, TRUE, st.fieldNameCount)]

\* The type a reference resolves to: genCSharpFieldType(getBasefromSimpleType(trimNSPrefix(ref), tree))
ResolveType(ref, tree) == genCSharpFieldType(getBasefromSimpleType(trimNSPrefix(ref), tree))

\* ------------------------------------------------------ sorted union members
kvPair(key, value) == [key |-> key, value |-> value]

\* Less with the tie on equal values broken by ascending key.
LessKeyAscending(k, i, j) ==
  StrLess(k[i].value, k[j].value)
    \/ (k[i].value = k[j].value /\ StrCompare(k[i].key, k[j].key) < 0)

\* kvPairList.Less
Less(k, i, j) ==
  StrLess(k[i].value, k[j].value)
    \/ (k[i].value = k[j].value /\ StrCompare(k[i].key, k[j].key) > 0)

\* kvPairList.Swap
Swap(k, i, j) == [k EXCEPT ![i] = k[j], ![j] = k[i]]

\* sort.Sort on a short list is an insertion sort driven by Less and Swap.
RECURSIVE SortInner(_, _)
SortInner(k, j) ==
  IF j > 1 /\ Less(k, j, j - 1) THEN SortInner(Swap(k, j, j - 1), j - 1) ELSE k

RECURSIVE SortOuter(_, _)
SortOuter(k, i) == IF i > Len(k) THEN k ELSE SortOuter(SortInner(k, i), i + 1)

\* The orders in which `for k, v := range toSort' may visit the map.
IterOrders(toSort) ==
  LET keys == DOMAIN toSort
      n == Cardinality(keys)
  IN {o \in [1..n -> keys] : \A i, j \in 1..n : o[i] = o[j] => i = j}

\* toSortedPairs without the sort.Sort call.
toUnsortedPairs(toSort, order) ==
  [i \in DOMAIN order |-> kvPair(order[i], toSort[order[i]])]

\* toSortedPairs, for the iteration order the runtime picked.
toSortedPairs(toSort, order) ==
  SortOuter([i \in DOMAIN order |-> kvPair(order[i], toSort[order[i]])], 2)

\* ------------------------------------------------------------------ handlers
\* A handler takes the construct v, the generator's state st = [Field, StructAST,
\* fieldNameCount] and the tree, and gives the state it leaves.

UnionFields(v, tree, order) ==
  LET pairs == toSortedPairs(v.MemberTypes, order) IN
  [i \in DOMAIN pairs |->
     LET memberName == pairs[i].key
         memberType == IF pairs[i].value = <<>>
                       THEN getBasefromSimpleType(memberName, tree)
                       ELSE pairs[i].value
     IN FieldLine(genCSharpFieldAttributes(TRUE), memberName,
                  genCSharpFieldType(memberType) \o <<"?">>,
                  NormalizeName(memberName), "")]

CSharpSimpleType(v, st, tree, order) ==
  LET cached == v.Name \in DOMAIN st.StructAST
      fieldType == ResolveType(v.Base, tree)
  IN IF v.List /\ ~cached
     THEN Declare(st, v.Name, <<>>, AliasContent(ListOf(fieldType)))
     ELSE IF v.Union /\ Cardinality(DOMAIN v.MemberTypes) > 0
     THEN IF ~cached
          THEN Declare(st, v.Name, <<>>, BodyContent(UnionFields(v, tree, order)))
          ELSE st
     ELSE IF ~cached /\ ~isBuiltInCSharpType(fieldType)
     THEN Declare(st, v.Name, <<>>, AliasContent(fieldType))
     ELSE st

\* if fieldName == className { fieldName += "Value" }
RenameIfClass(fieldName, className) ==
  IF fieldName = className THEN fieldName \o <<"V","a","l","u","e">> ELSE fieldName

AttributeFields(attributes, tree) ==
  [i \in DOMAIN attributes |->
     LET attribute == attributes[i]
         fieldType == ResolveType(attribute.Type, tree)
                        \o (IF attribute.Optional THEN <<"?">> ELSE <<>>)
     IN FieldLine(genCSharpFieldAttributes(FALSE), attribute.Name, fieldType,
                  NormalizeName(attribute.Name) \o <<"A","t","t","r">>,
                  getCSharpDefaultValue(fieldType))]

\* fieldType of an element: List<> when plural, then "?" when optional.
ElementType(element, tree) ==
  LET base == ResolveType(element.Type, tree)
      plural == IF element.Plural THEN ListOf(base) ELSE base
  IN IF element.Optional THEN plural \o <<"?">> ELSE plural

GroupType(group, tree) ==
  LET base == ResolveType(group.Ref, tree)
  IN (IF group.Plural THEN ListOf(base) ELSE base) \o <<"?">>

ComplexTypeFields(v, className, tree) ==
  [i \in DOMAIN v.AttributeGroup |->
     LET attrGroup == v.AttributeGroup[i] IN
     FieldLine(genCSharpFieldAttributes(TRUE), attrGroup.Name,
               genCSharpFieldType(getBasefromSimpleType(trimNSPrefix(attrGroup.Ref), tree)) \o <<"?">>,
               RenameIfClass(NormalizeName(attrGroup.Name), className), "")]
  \o AttributeFields(v.Attributes, tree)
  \o [i \in DOMAIN v.Groups |->
        LET group == v.Groups[i] IN
        FieldLine("", <<>>, GroupType(group, tree),
                  RenameIfClass(NormalizeName(group.Name), className), "")]
  \o [i \in DOMAIN v.Elements |->
        LET element == v.Elements[i]
            fieldType == ElementType(element, tree)
        IN FieldLine(genCSharpFieldAttributes(TRUE), element.Name, fieldType,
                     RenameIfClass(NormalizeName(element.Name), className),
                     getCSharpDefaultValue(fieldType))]
  \o (IF Len(v.Base) > 0 /\ isBuiltInCSharpType(v.Base)
      THEN LET fieldType == ResolveType(v.Base, tree)
           IN <<FieldLine("XmlText", fieldType, fieldType \o <<"?">>, <<"V","a","l","u","e">>, "")>>
      ELSE <<>>)

CSharpComplexType(v, st, tree) ==
  IF v.Name \in DOMAIN st.StructAST THEN st
  ELSE LET className == genCSharpFieldName(v.Name, TRUE, st.fieldNameCount)
           inheritance == IF Len(v.Base) > 0 /\ ~isBuiltInCSharpType(v.Base)
                          THEN ResolveType(v.Base, tree)
                          ELSE <<>>
       IN Declare(st, v.Name, inheritance, BodyContent(ComplexTypeFields(v, className, tree)))

GroupFields(v, tree) ==
  [i \in DOMAIN v.Elements |->
     LET element == v.Elements[i]
         fieldType == ElementType(element, tree)
     IN FieldLine(genCSharpFieldAttributes(TRUE), element.Name, fieldType,
                  NormalizeName(element.Name), getCSharpDefaultValue(fieldType))]
  \o [i \in DOMAIN v.Groups |->
        LET group == v.Groups[i] IN
        FieldLine(genCSharpFieldAttributes(TRUE), group.Name, GroupType(group, tree),
                  NormalizeName(group.Name), "")]

\* CSharpGroup without the gen.StructAST check.
CSharpGroupUnguarded(v, st, tree) ==
  Declare(st, v.Name, <<>>, BodyContent(GroupFields(v, tree)))

CSharpGroup(v, st, tree) ==
  IF v.Name \in DOMAIN st.StructAST THEN st
  ELSE Declare(st, v.Name, <<>>, BodyContent(GroupFields(v, tree)))

CSharpAttributeGroup(v, st, tree) ==
  IF v.Name \in DOMAIN st.StructAST THEN st
  ELSE Declare(st, v.Name, <<>>, BodyContent(AttributeFields(v.Attributes, tree)))

\* CSharpElement and CSharpAttribute have the same body.
TopLevelAlias(v, st, tree) ==
  LET fieldType == ResolveType(v.Type, tree) IN
  IF v.Name \in DOMAIN st.StructAST \/ isBuiltInCSharpType(fieldType) THEN st
  ELSE Declare(st, v.Name, <<>>,
               AliasContent(IF v.Plural THEN ListOf(fieldType) ELSE fieldType))

CSharpElement(v, st, tree) == TopLevelAlias(v, st, tree)

CSharpAttribute(v, st, tree) == TopLevelAlias(v, st, tree)

\* The handler the loop calls for an entry: "CSharp" + the entry's type name,
\* called by name; `order' is the map iteration order a union meets.
DispatchOrdered(v, st, tree, order) ==
  CASE v.kind = "nil" -> st
    [] v.kind = "SimpleType" -> CSharpSimpleType(v, st, tree, order)
    [] v.kind = "ComplexType" -> CSharpComplexType(v, st, tree)
    [] v.kind = "Group" -> CSharpGroup(v, st, tree)
    [] v.kind = "AttributeGroup" -> CSharpAttributeGroup(v, st, tree)
    [] v.kind = "Element" -> CSharpElement(v, st, tree)
    [] v.kind = "Attribute" -> CSharpAttribute(v, st, tree)

\* The iteration orders the handler of v may meet.
OrdersOf(v) == IterOrders(IF v.kind = "SimpleType" THEN v.MemberTypes ELSE EmptyMap)

Dispatch(v, st, tree) ==
  DispatchOrdered(v, st, tree, CHOOSE o \in OrdersOf(v) : TRUE)

\* Whether the handler of v reaches its genCSharpFieldName(v.Name, true) call,
\* that is, declares v.
Declares(v, st, tree) == Dispatch(v, st, tree).Field # st.Field

\* ------------------------------------------------------------------- inputs
\* Constructs the trees are built from.
CT_Foo2 == ComplexType(<<"F","o","o","2">>, <<>>, <<>>, <<>>, <<>>, <<>>)
CT_foo ==
  ComplexType(<<"f","o","o">>, <<>>,
    <<AttributeGroup(<<"f","o","o">>, <<"a","g">>, <<>>)>>,
    <<Attribute(<<"a">>, <<"s","t","r","i","n","g">>, FALSE, FALSE)>>,
    <<Group(<<"f","o","o">>, <<"G">>, TRUE, <<>>, <<>>)>>,
    <<Element(<<"f","o","o">>, <<"i","n","t">>, TRUE, TRUE), Element(<<"n">>, <<"x","s",":","t">>, FALSE, TRUE)>>)
CT_Foo == ComplexType(<<"F","o","o">>, <<"s","t","r","i","n","g">>, <<>>, <<>>, <<>>, <<>>)
CT_Bar == ComplexType(<<"B","a","r">>, <<"x","s",":","t">>, <<>>, <<>>, <<>>, <<>>)
G_G ==
  Group(<<"G">>, <<>>, FALSE,
    <<Element(<<"G">>, <<"i","n","t">>, TRUE, TRUE), Element(<<"s">>, <<"s","t","r","i","n","g">>, FALSE, TRUE)>>,
    <<Group(<<"s","u","b">>, <<"G">>, FALSE, <<>>, <<>>)>>)
AG_ag ==
  AttributeGroup(<<"a","g">>, <<>>,
    <<Attribute(<<"i","d">>, <<"t">>, FALSE, FALSE), Attribute(<<"e">>, <<"e">>, FALSE, TRUE)>>)
ST_t == SimpleType(<<"t">>, <<"s","t","r","i","n","g">>, FALSE, FALSE, EmptyMap)
ST_S == SimpleType(<<"S">>, <<"F","o","o">>, FALSE, FALSE, EmptyMap)
ST_L == SimpleType(<<"L">>, <<"t">>, TRUE, FALSE, EmptyMap)
ST_Color ==
  SimpleType(<<"C","o","l","o","r">>, <<>>, FALSE, TRUE,
    (<<"t">> :> <<>>) @@ (<<"u">> :> <<"i","n","t">>) @@ (<<"h","e","x">> :> <<"i","n","t">>))
E_e == Element(<<"e">>, <<"F","o","o">>, TRUE, FALSE)
A_attr == Attribute(<<"n","s",":","m","y","-","a","t","t","r",".","x">>, <<"i","n","t">>, FALSE, FALSE)

Pool == {Nil, CT_Foo2, CT_foo, CT_Foo, CT_Bar, G_G, AG_ag, ST_t, ST_S, ST_L, ST_Color, E_e, A_attr}

\* Trees of at most MaxTree entries.
Trees(pool) == UNION {[1..n -> pool] : n \in 0..MaxTree}

Packages == {<<>>, <<"n","s">>}

\* ------------------------------------------------------------------- state
Gens == {1, 2}

VARIABLES
  ProtoTree,       \* gen.ProtoTree, the same tree handed to both generators
  Package,         \* gen.Package
  fieldNameCount,  \* the package-level counter map
  Field,           \* gen.Field of each generator
  StructAST,       \* gen.StructAST of each generator
  pc,              \* where each GenCSharp call is
  idx,             \* position of each call's loop in the tree
  dest,            \* the destination file of each generator
  held,            \* what each run holds inside fieldNameCount[fieldName]++
  ret              \* what each GenCSharp call returned

vars == <<ProtoTree, Package, fieldNameCount, Field, StructAST, pc, idx, dest, held, ret>>

\* The destination: how much of the unit handed to f.Write reached the file
\* ("absent": never created, "empty": created, "partial": the write failed,
\* "full"), the number of Write calls, and the unit's namespace and body.
NoFile == [state |-> "absent", writes |-> 0, ns |-> <<>>, body |-> <<>>]

\* What the counter may hold when a run starts: nil, or an earlier run's counts.
InitialCounts == {EmptyMap, (<<"F","o","o">> :> 2) @@ (<<"G">> :> 1)}

\* fieldNameCount[fieldName]++ is p := mapassign(fieldNameCount, fieldName);
\* *p = *p + 1: the run loads the map variable, gets the slot and loads it, and
\* stores.  `map' says which map the run has loaded: none, the one the variable
\* still names ("shared"), or one that a later make has replaced, whose counts
\* are `old'; n is the count loaded from the slot; `raced' says that another
\* run's mapassign on the same map was under way together with this run's.
NoHold == [map |-> "none", old |-> EmptyMap, n |-> 0, raced |-> FALSE]

InitOver(pool) ==
  /\ ProtoTree \in Trees(pool)
  /\ Package \in Packages
  /\ fieldNameCount \in InitialCounts
  /\ Field = [g \in Gens |-> <<>>]
  /\ StructAST = [g \in Gens |-> EmptyMap]
  /\ pc = [g \in Gens |-> "idle"]
  /\ idx = [g \in Gens |-> 0]
  /\ dest = [g \in Gens |-> NoFile]
  /\ held = [g \in Gens |-> NoHold]
  /\ ret = [g \in Gens |-> "none"]

Init == InitOver(Pool)

\* fieldNameCount = make(map[string]int); a run that has loaded the map this
\* replaces goes on with that map.
Begin(g) ==
  /\ pc[g] = "idle"
  /\ fieldNameCount' = EmptyMap
  /\ pc' = [pc EXCEPT ![g] = "loop"]
  /\ idx' = [idx EXCEPT ![g] = 1]
  /\ held' = [h \in Gens |->
               IF held[h].map = "shared"
               THEN [held[h] EXCEPT !.map = "replaced", !.old = fieldNameCount]
               ELSE held[h]]
  /\ UNCHANGED <<ProtoTree, Package, Field, StructAST, dest, ret>>

\* A run that starts only after the other generator's run has returned.
BeginAfter(g) ==
  /\ \A h \in Gens : h < g => pc[h] = "done"
  /\ Begin(g)

AtEntry(g, kind) ==
  /\ pc[g] = "loop"
  /\ idx[g] <= Len(ProtoTree)
  /\ ProtoTree[idx[g]].kind = kind

Ele(g) == ProtoTree[idx[g]]

St(g) == [Field |-> Field[g], StructAST |-> StructAST[g], fieldNameCount |-> fieldNameCount]

\* The loop body's effect: the handler's result, then the next entry.
Handled(g, st) ==
  /\ Field' = [Field EXCEPT ![g] = st.Field]
  /\ StructAST' = [StructAST EXCEPT ![g] = st.StructAST]
  /\ fieldNameCount' = st.fieldNameCount
  /\ idx' = [idx EXCEPT ![g] = idx[g] + 1]
  /\ UNCHANGED <<ProtoTree, Package, pc, dest, held, ret>>

\* if ele == nil { continue }
SkipNil(g) == AtEntry(g, "nil") /\ Handled(g, St(g))

CallSimpleType(g) ==
  /\ AtEntry(g, "SimpleType")
  /\ \E order \in IterOrders(Ele(g).MemberTypes) :
       Handled(g, CSharpSimpleType(Ele(g), St(g), ProtoTree, order))

CallComplexType(g) ==
  AtEntry(g, "ComplexType") /\ Handled(g, CSharpComplexType(Ele(g), St(g), ProtoTree))

CallGroup(g) ==
  AtEntry(g, "Group") /\ Handled(g, CSharpGroup(Ele(g), St(g), ProtoTree))

CallAttributeGroup(g) ==
  AtEntry(g, "AttributeGroup") /\ Handled(g, CSharpAttributeGroup(Ele(g), St(g), ProtoTree))

CallElement(g) ==
  AtEntry(g, "Element") /\ Handled(g, CSharpElement(Ele(g), St(g), ProtoTree))

CallAttribute(g) ==
  AtEntry(g, "Attribute") /\ Handled(g, CSharpAttribute(Ele(g), St(g), ProtoTree))

LoopDone(g) == pc[g] = "loop" /\ idx[g] > Len(ProtoTree)

\* f, err := os.Create(gen.File + ".cs"); if err != nil { return err }
CreateFails(g) ==
  /\ LoopDone(g)
  /\ pc' = [pc EXCEPT ![g] = "done"]
  /\ ret' = [ret EXCEPT ![g] = "error"]
  /\ UNCHANGED <<ProtoTree, Package, fieldNameCount, Field, StructAST, idx, dest, held>>

CreateSucceeds(g) ==
  /\ LoopDone(g)
  /\ pc' = [pc EXCEPT ![g] = "write"]
  /\ dest' = [dest EXCEPT ![g] = [NoFile EXCEPT !.state = "empty"]]
  /\ UNCHANGED <<ProtoTree, Package, fieldNameCount, Field, StructAST, idx, held, ret>>

\* ns := gen.Package; if ns == "" { ns = "schema" }
Namespace == IF Package = <<>> THEN <<"s","c","h","e","m","a">> ELSE Package

\* f.Write(...); return err  -- err is still os.Create's nil
WriteFile(g, ok) ==
  /\ pc[g] = "write"
  /\ dest' = [dest EXCEPT ![g] = [state |-> IF ok THEN "full" ELSE "partial",
                                  writes |-> dest[g].writes + 1,
                                  ns |-> Namespace, body |-> Field[g]]]
  /\ pc' = [pc EXCEPT ![g] = "done"]
  /\ ret' = [ret EXCEPT ![g] = "nil"]
  /\ UNCHANGED <<ProtoTree, Package, fieldNameCount, Field, StructAST, idx, held>>

WriteSucceeds(g) == WriteFile(g, TRUE)

WriteFails(g) == WriteFile(g, FALSE)

Step(g) ==
  \/ SkipNil(g)
  \/ CallSimpleType(g)
  \/ CallComplexType(g)
  \/ CallGroup(g)
  \/ CallAttributeGroup(g)
  \/ CallElement(g)
  \/ CallAttribute(g)
  \/ CreateFails(g)
  \/ CreateSucceeds(g)
  \/ WriteSucceeds(g)
  \/ WriteFails(g)

\* One GenCSharp call on a fresh generator.
Solo == {1}

Next == \E g \in Solo : Begin(g) \/ Step(g)

Spec == Init /\ [][Next]_vars

\* Two runs on the same tree, one after the other, each on a fresh generator.
TwoPool == {Nil, CT_foo, CT_Foo, G_G, AG_ag, ST_Color, E_e, A_attr}

InitTwo == InitOver(TwoPool)

NextTwoRuns == \E g \in Gens : BeginAfter(g) \/ Step(g)

SpecTwoRuns == InitTwo /\ [][NextTwoRuns]_vars

\* Two runs on two generators whose statements interleave freely.  The runs
\* meet in fieldNameCount alone: the replacement of the map when GenCSharp
\* starts, and in genCSharpFieldName the increment, which is a load of the map
\* variable, a call of mapassign, a load of the slot it returns and a store to
\* it, and then the read of the count.  Nothing is locked.  What a handler does
\* on its own generator goes with the shared access that follows it.

\* A handler call that declares nothing never reaches the counter.
CallWithoutDeclaring(g) ==
  /\ pc[g] = "loop"
  /\ idx[g] <= Len(ProtoTree)
  /\ Ele(g).kind # "nil"
  /\ ~Declares(Ele(g), St(g), ProtoTree)
  /\ Handled(g, St(g))

\* The handler of the next entry of g will call genCSharpFieldName(v.Name, true).
AtIncrement(g) ==
  /\ pc[g] = "loop"
  /\ idx[g] <= Len(ProtoTree)
  /\ Ele(g).kind # "nil"
  /\ Declares(Ele(g), St(g), ProtoTree)

\* The handlers that store gen.StructAST[v.Name] before they take the name;
\* CSharpComplexType and CSharpAttributeGroup take the name first.
StoresBeforeNaming(v) == v.kind \in {"SimpleType", "Group", "Element", "Attribute"}

\* m without the key k.
MapWithout(m, k) == [x \in DOMAIN m \ {k} |-> m[x]]

\* The handler from its entry up to the load of the map variable in
\* fieldNameCount[fieldName]++.
LoadCounter(g) ==
  /\ AtIncrement(g)
  /\ \E order \in OrdersOf(Ele(g)) :
       StructAST' = [StructAST EXCEPT ![g] =
                       IF StoresBeforeNaming(Ele(g))
                       THEN DispatchOrdered(Ele(g), St(g), ProtoTree, order).StructAST
                       ELSE @]
  /\ held' = [held EXCEPT ![g] = [NoHold EXCEPT !.map = "shared"]]
  /\ pc' = [pc EXCEPT ![g] = "gotMap"]
  /\ UNCHANGED <<ProtoTree, Package, fieldNameCount, Field, idx, dest, ret>>

\* Another run is inside mapassign on the map g has loaded.
MeetsAssign(g) ==
  \E h \in Gens \ {g} : /\ pc[h] = "inAssign"
                        /\ held[h].map = "shared"
                        /\ held[g].map = "shared"

\* mapassign is entered: its check of the map's writing flag passes, which it
\* also can while another run is inside and has not yet set the flag.
EnterAssign(g) ==
  /\ pc[g] = "gotMap"
  /\ held' = [h \in Gens |->
               IF MeetsAssign(g) /\ (h = g \/ (pc[h] = "inAssign" /\ held[h].map = "shared"))
               THEN [held[h] EXCEPT !.raced = TRUE]
               ELSE held[h]]
  /\ pc' = [pc EXCEPT ![g] = "inAssign"]
  /\ UNCHANGED <<ProtoTree, Package, fieldNameCount, Field, StructAST, idx, dest, ret>>

\* mapassign finds the slot and returns, and the slot is loaded: a name the
\* map has no count for gets a slot holding 0.
LoadSlot(g) ==
  /\ pc[g] = "inAssign"
  /\ LET fieldName == NormalizeName(Ele(g).Name)
         m == IF held[g].map = "shared" THEN fieldNameCount ELSE held[g].old
         n == MapGet(m, fieldName, 0)
     IN IF held[g].map = "shared"
        THEN /\ fieldNameCount' = MapPut(m, fieldName, n)
             /\ held' = [held EXCEPT ![g].n = n, ![g].raced = FALSE]
        ELSE /\ fieldNameCount' = fieldNameCount
             /\ held' = [held EXCEPT ![g].n = n, ![g].raced = FALSE,
                                     ![g].old = MapPut(m, fieldName, n)]
  /\ pc' = [pc EXCEPT ![g] = "gotSlot"]
  /\ UNCHANGED <<ProtoTree, Package, Field, StructAST, idx, dest, ret>>

\* The store of the loaded count plus one, into the map the slot belongs to.
StoreSlot(g) ==
  /\ pc[g] = "gotSlot"
  /\ fieldNameCount' = IF held[g].map = "shared"
                       THEN MapPut(fieldNameCount, NormalizeName(Ele(g).Name), held[g].n + 1)
                       ELSE fieldNameCount
  /\ held' = [held EXCEPT ![g] = NoHold]
  /\ pc' = [pc EXCEPT ![g] = "named"]
  /\ UNCHANGED <<ProtoTree, Package, Field, StructAST, idx, dest, ret>>

\* The map on which the increment of `name' followed at once by the read gives
\* the count that a read of m alone gives (0 when m has no entry for it).
BeforeIncrement(m, name) ==
  MapPut(m, NormalizeName(name), MapGet(m, NormalizeName(name), 0) - 1)

\* What the handler of g's entry found when it was entered.
Entered(g) ==
  [Field |-> Field[g],
   StructAST |-> IF StoresBeforeNaming(Ele(g))
                 THEN MapWithout(StructAST[g], Ele(g).Name)
                 ELSE StructAST[g],
   fieldNameCount |-> BeforeIncrement(fieldNameCount, Ele(g).Name)]

\* count := fieldNameCount[fieldName], on the map the variable names now, and
\* the rest of the handler; the read changes nothing in the map.
ReadCountAndDeclare(g) ==
  /\ pc[g] = "named"
  /\ \E order \in OrdersOf(Ele(g)) :
       LET st == DispatchOrdered(Ele(g), Entered(g), ProtoTree, order)
       IN /\ StoresBeforeNaming(Ele(g)) => st.StructAST = StructAST[g]
          /\ Field' = [Field EXCEPT ![g] = st.Field]
          /\ StructAST' = [StructAST EXCEPT ![g] = st.StructAST]
  /\ idx' = [idx EXCEPT ![g] = idx[g] + 1]
  /\ pc' = [pc EXCEPT ![g] = "loop"]
  /\ UNCHANGED <<ProtoTree, Package, fieldNameCount, dest, held, ret>>

\* The runtime ends the process ("concurrent map writes", "concurrent map read
\* and map write") when a check of the map's writing flag in g fails: on
\* entering mapassign or on reading the count while another run is inside
\* mapassign on that map, or on leaving mapassign after another run's mapassign
\* was under way together with it.  The flag is set and cleared without a lock,
\* so each check may also pass, and the run whose check fails may be the one
\* that leaves last, after the other has gone on and returned.  The calls that
\* have not returned never do.
AbortOnConcurrentMapAccess(g) ==
  /\ \/ pc[g] = "gotMap" /\ MeetsAssign(g)
     \/ pc[g] = "named" /\ \E h \in Gens \ {g} : pc[h] = "inAssign" /\ held[h].map = "shared"
     \/ pc[g] = "inAssign" /\ held[g].raced
  /\ pc' = [h \in Gens |-> IF pc[h] = "done" THEN "done" ELSE "aborted"]
  /\ UNCHANGED <<ProtoTree, Package, fieldNameCount, Field, StructAST, idx, dest, held, ret>>

\* The process starts with no counts; the runs share one tree and, as the
\* package name reaches the output file alone, one package.
ConcPool == {Nil, CT_foo, CT_Foo, G_G, E_e}

InitConc == InitOver(ConcPool) /\ fieldNameCount = EmptyMap /\ Package = <<"n","s">>

NextConc ==
  \E g \in Gens :
    \/ Begin(g)
    \/ SkipNil(g)
    \/ CallWithoutDeclaring(g)
    \/ LoadCounter(g)
    \/ EnterAssign(g)
    \/ LoadSlot(g)
    \/ StoreSlot(g)
    \/ ReadCountAndDeclare(g)
    \/ AbortOnConcurrentMapAccess(g)
    \/ CreateFails(g)
    \/ CreateSucceeds(g)
    \/ WriteSucceeds(g)
    \/ WriteFails(g)

SpecConc == InitConc /\ [][NextConc]_vars

\* =================================================================== claims
\* Helpers the properties below are written with.

\* Entries of the tree the loop of generator g has already passed.
Visited(g) == {i \in DOMAIN ProtoTree : i < idx[g]}

\* Tree entries that decl may render: same name, one of the kinds.
SourcesOf(decl, kinds) ==
  {j \in DOMAIN ProtoTree : /\ ProtoTree[j].kind \in kinds
                            /\ ProtoTree[j].Name = decl.xmlType}

Decls(g) == {Field[g][i] : i \in DOMAIN Field[g]}

PairwiseDistinctClasses(field) ==
  \A i, j \in DOMAIN field : field[i].class = field[j].class => i = j

\* How many of the first i declarations normalize to the name of the i-th.
Occurrence(field, i) ==
  Cardinality({j \in 1..i : NormalizeName(field[j].xmlType) = NormalizeName(field[i].xmlType)})

\* C1: after a GenCSharp run the identifiers of the top-level declarations are
\* pairwise distinct, the k-th declaration whose name normalizes to X being
\* declared as X followed by k (k >= 2), also when a raw name already
\* normalizes to X followed by k.
C1_UniqueIdentifiers ==
  \A g \in Gens :
    /\ PairwiseDistinctClasses(Field[g])
    /\ \A i \in DOMAIN Field[g] :
         LET k == Occurrence(Field[g], i)
             X == NormalizeName(Field[g][i].xmlType)
         IN Field[g][i].class = IF k >= 2 THEN X \o Itoa(k) ELSE X

\* C2: gen.Field holds at most one declaration per construct name, and a
\* handler called for a name that is already a key of gen.StructAST appends
\* nothing to gen.Field.
C2_AtMostOneDeclaration ==
  [][\A g \in Gens :
       /\ \A i, j \in DOMAIN Field'[g] :
            Field'[g][i].xmlType = Field'[g][j].xmlType => i = j
       /\ ( /\ pc[g] = "loop" /\ idx[g] <= Len(ProtoTree)
            /\ idx'[g] = idx[g] + 1
            /\ Ele(g).kind # "nil"
            /\ Ele(g).Name \in DOMAIN StructAST[g] )
          => Field'[g] = Field[g]]_vars

\* A construct met a second time by the loop, declared once.
C2_Witness ==
  \E g \in Gens : \E i, j \in Visited(g) :
    /\ i < j
    /\ ProtoTree[i].kind # "nil"
    /\ ProtoTree[i] = ProtoTree[j]
    /\ Cardinality({k \in DOMAIN Field[g] : Field[g][k].xmlType = ProtoTree[i].Name}) = 1

\* Position of element k of construct v among the fields of its class body.
ElementFieldIndex(v, k) ==
  IF v.kind = "ComplexType"
  THEN Len(v.AttributeGroup) + Len(v.Attributes) + Len(v.Groups) + k
  ELSE k

\* C3: an element field of built-in scalar type rendered by the ComplexType
\* and Group handlers has type List<T> without "?" when the element is plural
\* and optional, and T? when it is optional and not plural.
C3_CollectionAbsorbsOptional ==
  \A g \in Gens : \A decl \in Decls(g) :
    \A j \in SourcesOf(decl, {"ComplexType", "Group"}) :
      \A k \in DOMAIN ProtoTree[j].Elements :
        LET element == ProtoTree[j].Elements[k]
            T == ResolveType(element.Type, ProtoTree)
            type == decl.content.fields[ElementFieldIndex(ProtoTree[j], k)].type
        IN (element.Optional /\ isBuiltInCSharpType(T)) =>
             type = IF element.Plural THEN ListOf(T) ELSE T \o <<"?">>

BothDone == \A g \in Gens : pc[g] = "done"

\* C4: two independent runs on fresh generators over the same tree and
\* namespace produce the same output text, whatever order the MemberTypes map
\* was iterated in and whatever the counter held when each run started.
C4_Deterministic ==
  BothDone =>
    /\ Field[1] = Field[2]
    /\ (dest[1].state = "full" /\ dest[2].state = "full") =>
         (dest[1].ns = dest[2].ns /\ dest[1].body = dest[2].body)

\* Both runs wrote a unit holding a union and a counter-suffixed identifier;
\* the second run started on the counter the first one left.
C4_Witness ==
  /\ BothDone
  /\ dest[1].state = "full" /\ dest[2].state = "full"
  /\ \E d \in Decls(2) : d.xmlType = <<"C","o","l","o","r">> /\ Len(d.content.fields) = 3
  /\ \E d \in Decls(2) : d.class = <<"F","o","o","2">>

\* Union constructs of the tree that decl may render.
UnionSourcesOf(decl) ==
  {j \in SourcesOf(decl, {"SimpleType"}) :
     ProtoTree[j].Union /\ DOMAIN ProtoTree[j].MemberTypes # {}}

\* The fields of decl are the members of m, one each, in the order `before'.
MembersInOrder(decl, m, before(_, _)) ==
  LET fields == decl.content.fields IN
  /\ Len(fields) = Cardinality(DOMAIN m)
  /\ {fields[i].xml : i \in DOMAIN fields} = DOMAIN m
  /\ \A a, b \in DOMAIN fields : a < b => before(fields[a].xml, fields[b].xml)

\* The type name a member is rendered with: an empty explicit type is looked
\* up by the member's name in the tree first.
ResolvedMemberType(m, key) ==
  genCSharpFieldType(IF m[key] = <<>> THEN getBasefromSimpleType(key, ProtoTree) ELSE m[key])

\* C5 (as stated): the fields of a union's record are ordered by the member's
\* resolved type name ascending, ties broken by member name descending.
C5_OrderedByResolvedType ==
  \A g \in Gens : \A decl \in Decls(g) : \A j \in UnionSourcesOf(decl) :
    LET m == ProtoTree[j].MemberTypes
        before(x, y) ==
          \/ StrLess(ResolvedMemberType(m, x), ResolvedMemberType(m, y))
          \/ /\ ResolvedMemberType(m, x) = ResolvedMemberType(m, y)
             /\ StrLess(y, x)
    IN MembersInOrder(decl, m, before)

\* C5 (amended): the fields of a union's record are ordered by the member's
\* explicit type as the mapping stores it (ascending, so members with an empty
\* explicit type come first), ties broken by member name descending, whatever
\* order the map was iterated in.
C5_OrderedByExplicitType ==
  \A g \in Gens : \A decl \in Decls(g) : \A j \in UnionSourcesOf(decl) :
    LET m == ProtoTree[j].MemberTypes
        before(x, y) == StrLess(m[x], m[y]) \/ (m[x] = m[y] /\ StrLess(y, x))
    IN MembersInOrder(decl, m, before)

\* A union was rendered whose member with the empty explicit type resolves,
\* through the tree, to a type that sorts after the other members' types.
C5_Witness ==
  \E g \in Gens : \E decl \in Decls(g) : \E j \in UnionSourcesOf(decl) :
    LET m == ProtoTree[j].MemberTypes IN
    \E x, y \in DOMAIN m :
      /\ m[x] = <<>> /\ m[y] # <<>>
      /\ StrLess(m[y], ResolvedMemberType(m, x))
      /\ decl.content.fields[1].xml = x

\* C6: GenCSharp returns nil only when the file was created and the whole
\* unit written; a failure to create or to write is returned as an error.
C6_FailuresReported ==
  \A g \in Gens : pc[g] = "done" => (ret[g] = "nil" <=> dest[g].state = "full")

\* C7: when GenCSharp ends in a destination failure, gen.Field and
\* gen.StructAST hold what they held before the call, and the destination got
\* at most one write, made after the whole tree was walked.
C7_NothingVisibleOnFailure ==
  \A g \in Gens :
    /\ dest[g].writes <= 1
    /\ dest[g].writes > 0 => idx[g] > Len(ProtoTree)
    /\ (pc[g] = "done" /\ dest[g].state # "full") =>
         (Field[g] = <<>> /\ StructAST[g] = EmptyMap)

\* C8: in a record emitted by the ComplexType, Group and AttributeGroup
\* handlers no field identifier equals the class identifier; a field whose
\* normalized name equals the construct's normalized name carries the suffix
\* "Value".
C8_FieldNeverNamedAsClass ==
  \A g \in Gens : \A decl \in Decls(g) :
    SourcesOf(decl, {"ComplexType", "Group", "AttributeGroup"}) # {} =>
      \A k \in DOMAIN decl.content.fields :
        LET field == decl.content.fields[k] IN
        /\ field.name # decl.class
        /\ ( /\ field.attr = "XmlElement"
             /\ NormalizeName(field.xml) = NormalizeName(decl.xmlType) )
           => field.name = NormalizeName(field.xml) \o <<"V","a","l","u","e">>

\* What gen.Field holds after a run nothing interferes with.
RECURSIVE FieldAlone(_, _, _)
FieldAlone(tree, i, st) ==
  IF i > Len(tree) THEN st.Field
  ELSE FieldAlone(tree, i + 1, Dispatch(tree[i], st, tree))

FreshRun == [Field |-> <<>>, StructAST |-> EmptyMap, fieldNameCount |-> EmptyMap]

\* C9: under every interleaving of two runs on separate generators each run
\* produces the output it produces alone, and each run's top-level
\* identifiers stay pairwise distinct.
C9_RunsDoNotInterfere ==
  \A g \in Gens :
    /\ PairwiseDistinctClasses(Field[g])
    /\ pc[g] = "done" => Field[g] = FieldAlone(ProtoTree, 1, FreshRun)

\* C10: processing a non-list, non-union SimpleType whose resolved base is a
\* built-in type appends nothing to gen.Field and leaves the construct's name
\* a key of gen.StructAST.
C10_BuiltInScalarRegistered ==
  [][\A g \in Gens :
       ( /\ AtEntry(g, "SimpleType")
         /\ idx'[g] = idx[g] + 1
         /\ ~Ele(g).List /\ ~Ele(g).Union
         /\ isBuiltInCSharpType(ResolveType(Ele(g).Base, ProtoTree)) )
       => /\ Field'[g] = Field[g]
          /\ Ele(g).Name \in DOMAIN StructAST'[g]]_vars

\* The text-content fields of a class body.
TextFields(decl) ==
  {k \in DOMAIN decl.content.fields : decl.content.fields[k].attr = "XmlText"}

\* C11: a ComplexType with a non-empty base whose base is a built-in type,
\* directly or after prefix stripping and one-level resolution through the
\* tree, is declared with exactly one text-content field Value and no
\* inheritance clause; any other base gives an inheritance clause naming the
\* base and no text-content field.  An inheritance clause never names a
\* built-in type.
C11_BaseTextOrInheritance ==
  \A g \in Gens : \A decl \in Decls(g) :
    /\ ~isBuiltInCSharpType(decl.inheritance)
    /\ \A j \in SourcesOf(decl, {"ComplexType"}) :
         LET v == ProtoTree[j]
             T == ResolveType(v.Base, ProtoTree)
         IN Len(v.Base) > 0 =>
              IF isBuiltInCSharpType(v.Base) \/ isBuiltInCSharpType(T)
              THEN /\ decl.inheritance = <<>>
                   /\ Cardinality(TextFields(decl)) = 1
                   /\ \A k \in TextFields(decl) :
                        decl.content.fields[k].name = <<"V","a","l","u","e">>
              ELSE /\ decl.inheritance = T
                   /\ TextFields(decl) = {}

\* Where a construct name first occurs in the tree.
FirstOccurrence(name) ==
  CHOOSE i \in DOMAIN ProtoTree :
    /\ ProtoTree[i].kind # "nil" /\ ProtoTree[i].Name = name
    /\ \A j \in 1..(i - 1) : ProtoTree[j].kind = "nil" \/ ProtoTree[j].Name # name

IsPrefix(s, t) == Len(s) <= Len(t) /\ SubSeq(t, 1, Len(s)) = s

\* C12: the loop moves through the tree front to back one entry at a time,
\* gen.Field only grows by appending (what it held stays as its prefix), a nil
\* entry leaves it unchanged, and its declarations stand in the order in which
\* their constructs first occur in the tree.
C12_AppendOnlyInTreeOrder ==
  [][\A g \in Gens :
       /\ idx'[g] \in {idx[g], idx[g] + 1}
       /\ IsPrefix(Field[g], Field'[g])
       /\ (AtEntry(g, "nil") /\ idx'[g] = idx[g] + 1) => Field'[g] = Field[g]
       /\ \A a, b \in DOMAIN Field'[g] :
            a < b => FirstOccurrence(Field'[g][a].xmlType)
                       < FirstOccurrence(Field'[g][b].xmlType)
       /\ \A a \in DOMAIN Field'[g] :
            FirstOccurrence(Field'[g][a].xmlType) < idx'[g]]_vars

\* Two declarations appended around a nil entry and a repeated construct.
C12_Witness ==
  \E g \in Gens :
    /\ Len(Field[g]) >= 2
    /\ \E i \in Visited(g) :
         \/ ProtoTree[i].kind = "nil"
         \/ \E j \in Visited(g) : j < i /\ ProtoTree[j] = ProtoTree[i]

====
